---- MODULE Spec2Model ----
(***************************************************************************)
(* Model of qrng/__init__.py: quantum_random_byte (one HTTP GET to the ANU *)
(* QRNG service) and quantum_choice (weighted choice from a single byte).  *)
(*                                                                         *)
(* Python lists are TLA+ sequences, so Python index b is TLA+ index b+1.   *)
(* Weights are modelled as integers.  The code computes                    *)
(* int((w / total) * 255) in double precision; on the integer weights      *)
(* modelled here (|w|, |total| far below 2^53 / 255) that equals the       *)
(* exact quotient w*255/total truncated toward zero, which is what         *)
(* NormalizeOne computes.                                                  *)
(***************************************************************************)
EXTENDS Integers, Sequences, FiniteSets, TLC

VARIABLES
    pc,                 \* position of the current quantum_choice call
    choices,            \* argument `choices`
    weights,            \* local `weights` (after the default of line 34)
    omitted,            \* TRUE iff the call passed weights=None
    normalized_weights, \* local `normalized_weights`
    adjustment,         \* local `adjustment`
    choice_map,         \* local `choice_map`
    requests,           \* number of requests.get calls issued by this call
    response,           \* what requests.get produced for this call
    random_byte,        \* local `random_byte`: << >> while unset, <<b>> once set
    result,             \* value returned by the call: << >> or <<label>>
    error               \* exception the call ended with, "" when none

vars == <<pc, choices, weights, omitted, normalized_weights, adjustment,
          choice_map, requests, response, random_byte, result, error>>

----------------------------------------------------------------------------
(* Bounds of the model *)

MaxChoices == 4
MaxWeightsLen == 3
MaxWeight == 3
BigWeight == 300

(* Program constants *)

ByteMax == 255

----------------------------------------------------------------------------
(* Inputs *)

Fruits == <<"apple", "banana", "cherry">>

Label(i) == IF i <= Len(Fruits) THEN Fruits[i] ELSE ToString(i)

ChoicesOfLen(n) == [i \in 1..n |-> Label(i)]

WeightValues == -1..MaxWeight

\* Weight lists mixing weight 1 with a weight large enough that 1 normalizes to 0.
SkewedWeightLists == UNION {[1..n -> {1, BigWeight}] : n \in 1..MaxWeightsLen}

WeightLists ==
    UNION {[1..n -> WeightValues] : n \in 0..MaxWeightsLen} \cup SkewedWeightLists

NoResponse == [kind |-> "none", data |-> << >>]

Responses ==
    {[kind |-> k, data |-> << >>] :
        k \in {"connection_error", "timeout", "http_500", "not_json", "no_data"}}
    \cup {[kind |-> "data", data |-> << >>]}
    \cup {[kind |-> "data", data |-> <<b>>] : b \in -1..256}
    \cup {[kind |-> "data", data |-> <<0, ByteMax>>]}

----------------------------------------------------------------------------
(* Pure helpers of quantum_choice *)

RECURSIVE SumTo(_, _)
SumTo(s, n) == IF n = 0 THEN 0 ELSE SumTo(s, n - 1) + s[n]

Sum(s) == SumTo(s, Len(s))

Abs(x) == IF x < 0 THEN 0 - x ELSE x

TruncDiv(a, b) ==
    IF (a >= 0) = (b > 0) THEN Abs(a) \div Abs(b) ELSE 0 - (Abs(a) \div Abs(b))

DefaultWeights(c) == [i \in 1..Len(c) |-> 1]

\* Variant: rounds to nearest instead of truncating.
NormalizeOneRounded(w, total) == TruncDiv(2 * w * ByteMax + total, 2 * total)

NormalizeOne(w, total) == TruncDiv(w * ByteMax, total)

Normalize(w) == [i \in 1..Len(w) |-> NormalizeOne(w[i], Sum(w))]

Adjustment(nw) == ByteMax - Sum(nw)

Max(w) == CHOOSE m \in {w[i] : i \in 1..Len(w)} : \A i \in 1..Len(w) : w[i] <= m

\* Variant: last index holding v instead of the first.
IndexLast(w, v) == CHOOSE i \in 1..Len(w) : w[i] = v /\ \A j \in (i + 1)..Len(w) : w[j] # v

Index(w, v) == CHOOSE i \in 1..Len(w) : w[i] = v /\ \A j \in 1..(i - 1) : w[j] # v

Adjust(nw, w) ==
    IF Adjustment(nw) > 0
    THEN [nw EXCEPT ![Index(w, Max(w))] = @ + Adjustment(nw)]
    ELSE nw

\* Variant: every choice is laid out at least once.
RepeatAtLeastOnce(x, n) == IF n <= 1 THEN <<x>> ELSE [k \in 1..n |-> x]

Repeat(x, n) == IF n <= 0 THEN << >> ELSE [k \in 1..n |-> x]

Zip(c, nw) == IF Len(c) <= Len(nw) THEN Len(c) ELSE Len(nw)

RECURSIVE ExtendTo(_, _, _)
ExtendTo(c, nw, n) ==
    IF n = 0 THEN << >> ELSE ExtendTo(c, nw, n - 1) \o Repeat(c[n], nw[n])

BuildChoiceMap(c, nw) == ExtendTo(c, nw, Zip(c, nw))

InRange(m, b) == 0 - Len(m) <= b /\ b < Len(m)

GetItem(m, b) == IF b >= 0 THEN m[b + 1] ELSE m[Len(m) + b + 1]

----------------------------------------------------------------------------
(* State machine *)

Init ==
    /\ pc = "idle"
    /\ choices = << >>
    /\ weights = << >>
    /\ omitted = TRUE
    /\ normalized_weights = << >>
    /\ adjustment = 0
    /\ choice_map = << >>
    /\ requests = 0
    /\ response = NoResponse
    /\ random_byte = << >>
    /\ result = << >>
    /\ error = ""

Raise(e) ==
    /\ pc' = "raised"
    /\ error' = e

quantum_choice_body(c, none, w) ==
    LET ws == IF none THEN DefaultWeights(c) ELSE w
    IN  /\ choices' = c
        /\ omitted' = none
        /\ weights' = ws
        /\ requests' = 0
        /\ response' = NoResponse
        /\ random_byte' = << >>
        /\ result' = << >>
        /\ IF Len(ws) > 0 /\ Sum(ws) = 0
           THEN /\ Raise("ZeroDivisionError")
                /\ normalized_weights' = << >>
                /\ adjustment' = 0
                /\ choice_map' = << >>
           ELSE IF Len(ws) = 0
           THEN /\ Raise("ValueError")
                /\ normalized_weights' = << >>
                /\ adjustment' = ByteMax
                /\ choice_map' = << >>
           ELSE /\ normalized_weights' = Adjust(Normalize(ws), ws)
                /\ adjustment' = Adjustment(Normalize(ws))
                /\ choice_map' = BuildChoiceMap(c, Adjust(Normalize(ws), ws))
                /\ pc' = "line53"
                /\ error' = ""

quantum_choice ==
    /\ pc = "idle"
    /\ \E n \in 0..MaxChoices :
         \/ quantum_choice_body(ChoicesOfLen(n), TRUE, << >>)
         \/ \E w \in WeightLists : quantum_choice_body(ChoicesOfLen(n), FALSE, w)

\* Variant: a failed request is retried once.
quantum_random_byte_retry ==
    /\ pc = "line53"
    /\ \E r1, r \in Responses :
         /\ response' = r
         /\ requests' = IF r1.kind \in {"connection_error", "timeout", "http_500"}
                        THEN requests + 2 ELSE requests + 1
         /\ r1.kind \notin {"connection_error", "timeout", "http_500"} => r = r1
         /\ IF r.kind = "data" /\ Len(r.data) = 1
            THEN /\ random_byte' = <<r.data[1]>>
                 /\ pc' = "line54"
                 /\ error' = ""
            ELSE /\ random_byte' = << >>
                 /\ Raise("ValueError")
    /\ UNCHANGED <<choices, weights, omitted, normalized_weights, adjustment,
                   choice_map, result>>

quantum_random_byte ==
    /\ pc = "line53"
    /\ \E r \in Responses :
         /\ response' = r
         /\ requests' = requests + 1
         /\ IF r.kind = "data" /\ Len(r.data) = 1
            THEN /\ random_byte' = <<r.data[1]>>
                 /\ pc' = "line54"
                 /\ error' = ""
            ELSE /\ random_byte' = << >>
                 /\ Raise("ValueError")
    /\ UNCHANGED <<choices, weights, omitted, normalized_weights, adjustment,
                   choice_map, result>>

lookup ==
    /\ pc = "line54"
    /\ IF InRange(choice_map, random_byte[1])
       THEN /\ result' = <<GetItem(choice_map, random_byte[1])>>
            /\ pc' = "returned"
            /\ error' = ""
       ELSE /\ result' = << >>
            /\ Raise("IndexError")
    /\ UNCHANGED <<choices, weights, omitted, normalized_weights, adjustment,
                   choice_map, requests, response, random_byte>>

next_call ==
    /\ pc \in {"returned", "raised"}
    /\ pc' = "idle"
    /\ choices' = << >>
    /\ weights' = << >>
    /\ omitted' = TRUE
    /\ normalized_weights' = << >>
    /\ adjustment' = 0
    /\ choice_map' = << >>
    /\ requests' = 0
    /\ response' = NoResponse
    /\ random_byte' = << >>
    /\ result' = << >>
    /\ error' = ""

Next == quantum_choice \/ quantum_random_byte \/ lookup \/ next_call

Spec == Init /\ [][Next]_vars

----------------------------------------------------------------------------
(* Vocabulary of the properties *)

Called == pc # "idle"

Finished == pc \in {"returned", "raised"}

ByteValues == 0..ByteMax

\* The weight vector in use is non-negative with a positive sum.
ValidWeights ==
    /\ Len(weights) >= 1
    /\ \A i \in 1..Len(weights) : weights[i] >= 0
    /\ Sum(weights) > 0

\* N >= 1 choices, weights omitted or N non-negative weights with positive sum.
ValidInput ==
    /\ Len(choices) >= 1
    /\ Len(weights) = Len(choices)
    /\ ValidWeights

\* raw_i = floor(weight_i * 255 / total), written out as the specification states it.
RawFloor(i) == (weights[i] * 255) \div Sum(weights)

Deficit == 255 - Sum([i \in 1..Len(weights) |-> RawFloor(i)])

\* First index whose source weight is the maximum of the weight list.
FirstMaxIdx ==
    CHOOSE r \in 1..Len(weights) :
        /\ \A j \in 1..Len(weights) : weights[j] <= weights[r]
        /\ \A j \in 1..(r - 1) : weights[j] < weights[r]

\* Number of byte values 0..255 whose slot holds the choice at position i.
SlotCount(i) ==
    Cardinality({b \in ByteValues : b < Len(choice_map) /\ choice_map[b + 1] = choices[i]})

AllEqual == \A i, j \in 1..Len(weights) : weights[i] = weights[j]

FetchFailures == {"connection_error", "timeout", "http_500"}

----------------------------------------------------------------------------
(* C1: for every valid input and every byte 0..255 returned by the byte    *)
(* source, the call returns one of the supplied choices; the lookup is     *)
(* never out of range.                                                     *)
C1_EveryByteReturnsAChoice ==
    (/\ ValidInput
     /\ Finished
     /\ random_byte # << >>
     /\ random_byte[1] \in ByteValues)
    => /\ pc = "returned"
       /\ \E i \in 1..Len(choices) : result = <<choices[i]>>

(* C2: for non-negative weights with positive sum the normalized weight    *)
(* table consists of non-negative integers summing to exactly 255, and the *)
(* deficit 255 - sum(raw_i) is never negative.                             *)
C2_NormalizedSumsTo255 ==
    (Called /\ ValidWeights)
    => /\ Len(normalized_weights) = Len(weights)
       /\ \A i \in 1..Len(normalized_weights) : normalized_weights[i] >= 0
       /\ Sum(normalized_weights) = 255
       /\ adjustment = Deficit
       /\ adjustment >= 0

C2_Witness ==
    /\ pc = "line53"
    /\ ~omitted
    /\ weights = <<3, 0, 1>>
    /\ adjustment = 1
    /\ normalized_weights = <<192, 0, 63>>

(* C3: choices [apple, banana, cherry] with weights [1, 2, 3]: raw weights *)
(* [42, 85, 127], deficit 1 added to cherry, final table [42, 85, 128];    *)
(* bytes 0..41 give apple, 42..126 banana, 127..255 cherry.                *)
C3_Expected(b) == IF b <= 41 THEN "apple" ELSE IF b <= 126 THEN "banana" ELSE "cherry"

C3_FruitScenario ==
    (Called /\ ~omitted /\ choices = Fruits /\ weights = <<1, 2, 3>>)
    => /\ Normalize(weights) = <<42, 85, 127>>
       /\ adjustment = 1
       /\ normalized_weights = <<42, 85, 128>>
       /\ \A b \in ByteValues :
            (Finished /\ random_byte = <<b>>)
            => (pc = "returned" /\ result = <<C3_Expected(b)>>)

(* C4: an explicit non-empty weights sequence whose length differs from    *)
(* the length of the non-empty choices makes the call fail, and no request *)
(* to the byte source is issued during that call.                          *)
C4_LengthMismatchRejected ==
    (/\ Called
     /\ ~omitted
     /\ Len(weights) >= 1
     /\ Len(choices) >= 1
     /\ Len(weights) # Len(choices)
     /\ ValidWeights)
    => (pc = "raised" /\ requests = 0)

(* C5: zero choices, all-zero weights or a negative weight make the call   *)
(* fail before any request to the byte source; it never returns a choice   *)
(* and never performs the fetch.                                           *)
C5_InvalidArgumentsRejected ==
    (/\ Called
     /\ \/ Len(choices) = 0
        \/ ~omitted /\ Len(weights) >= 1 /\ \A i \in 1..Len(weights) : weights[i] = 0
        \/ ~omitted /\ \E i \in 1..Len(weights) : weights[i] < 0)
    => (pc = "raised" /\ requests = 0 /\ result = << >>)

(* C6: with weights omitted the slot counts of any two choices differ by   *)
(* at most 1.                                                              *)
C6_UniformSlots ==
    (Called /\ omitted /\ Len(choices) >= 1)
    => \A i, j \in 1..Len(choices) : SlotCount(i) - SlotCount(j) <= 1

(* C7: quantum_random_byte returns an integer in 0..255 or fails: a        *)
(* success payload whose data field is absent, has length other than 1 or  *)
(* holds a value outside 0..255 makes the call fail and return no value.   *)
C7_Malformed(r) ==
    \/ r.kind = "no_data"
    \/ r.kind = "data" /\ Len(r.data) # 1
    \/ r.kind = "data" /\ Len(r.data) = 1 /\ r.data[1] \notin ByteValues

C7_ByteInRangeOrFails ==
    /\ C7_Malformed(response) => (pc = "raised" /\ random_byte = << >> /\ result = << >>)
    /\ random_byte # << >> => random_byte[1] \in ByteValues

(* C8: a call on valid arguments issues exactly one request and never a    *)
(* second one; if the byte source fails, the call ends in that error,      *)
(* returns no choice, and the failure is terminal for the call.            *)
C8_ExactlyOneRequestNoRetry ==
    /\ [](requests <= 1)
    /\ []((ValidInput /\ pc \in {"line54", "returned", "raised"}) => requests = 1)
    /\ [](response.kind \in FetchFailures
          => (pc = "raised" /\ error = "ValueError" /\ result = << >> /\ requests = 1))
    /\ [][requests' > requests => (pc = "line53" /\ requests = 0)]_vars
    /\ [][pc = "raised" => pc' = "idle"]_vars

C8_Witness ==
    /\ ValidInput
    /\ pc = "raised"
    /\ response.kind = "http_500"
    /\ requests = 1
    /\ result = << >>

(* C9: the whole deficit is added to exactly one entry, the one at the     *)
(* first index whose source weight is maximal; every other entry keeps     *)
(* floor(weight_i * 255 / total); with all weights equal the deficit lands *)
(* on the first index.                                                     *)
C9_DeficitOnFirstMax ==
    (Called /\ ValidWeights)
    => /\ normalized_weights[FirstMaxIdx] = RawFloor(FirstMaxIdx) + Deficit
       /\ \A i \in 1..Len(weights) :
            i # FirstMaxIdx => normalized_weights[i] = RawFloor(i)
       /\ AllEqual => normalized_weights[1] = RawFloor(1) + Deficit

C9_Witness ==
    /\ Called
    /\ ValidWeights
    /\ Len(weights) >= 2
    /\ AllEqual
    /\ adjustment > 0
    /\ normalized_weights[1] = normalized_weights[2] + adjustment

(* C10: for valid input a position whose raw normalized weight is 0 and    *)
(* which is not the deficit recipient owns no slot and is never returned;  *)
(* in particular a choice with weight 0 is never selected.                 *)
C10_ZeroRawNeverSelected ==
    (Called /\ ValidInput)
    => \A i \in 1..Len(choices) :
         /\ (RawFloor(i) = 0 /\ i # FirstMaxIdx)
            => (SlotCount(i) = 0 /\ result # <<choices[i]>>)
         /\ weights[i] = 0 => (SlotCount(i) = 0 /\ result # <<choices[i]>>)

C10_Witness ==
    /\ ValidInput
    /\ ~omitted
    /\ pc = "returned"
    /\ adjustment > 0
    /\ \E i \in 1..Len(choices) : weights[i] > 0 /\ RawFloor(i) = 0
    /\ \E i \in 1..Len(choices) : normalized_weights[i] = 0

====
